---- MODULE Spec2Model ----
(***************************************************************************)
(* 3D-Sound-Node: the 3D force layout (forceZ, forceCollide3D,             *)
(* create3DForceSimulation, addNodeToSimulation, addLinkToSimulation) and  *)
(* the graph store, as state machines.                                     *)
(*                                                                         *)
(* Numbers.  A JavaScript number is a record [k, v]:                       *)
(*   k = "fin"   a finite number, held in fixed point: v thousandths       *)
(*   k = "inf"   +Infinity (v = 1) or -Infinity (v = -1)                   *)
(*   k = "nan"   NaN                                                       *)
(*   k = "undef" the value undefined (a missing property)                  *)
(* Products and quotients are truncated to the thousandth.  The special    *)
(* values follow IEEE 754: x/0 is an infinity, 0/0 and 0*Infinity are NaN, *)
(* every comparison with NaN is false.                                     *)
(***************************************************************************)
EXTENDS Integers, Sequences, FiniteSets, TLC

VARIABLES
  variant,     \* which forceSimulation file is in use: "ts" or "js"
  simulation,  \* "null" before create3DForceSimulation returned, then "sim"
  driver,      \* who advances the simulation: "tick" (simulation.tick()) or "timer" (d3's own stepper)
  nodes,       \* the node array shared with the simulation
  links,       \* the link array of the link force
  alpha,       \* simulation.alpha(), in millionths
  timer,       \* whether d3's internal stepper is running
  applied,     \* the names of the forces applied by the last tick, in order
  threw,       \* the exception the last operation threw, or "none"
  last,        \* the last operation performed
  budget,      \* ticks the run may still take
  gnodes,      \* graphStore: graph.nodes
  glinks,      \* graphStore: graph.links
  snodes,      \* the node array create3DForceSimulation was called on, as ids
  slinks,      \* the link array create3DForceSimulation was called on
  frames,      \* stabilization controller: the frame counter
  running,     \* stabilization controller: whether it still calls tick()
  selection,   \* selectionStore: the value the store holds
  call,        \* selectionStore: the last call made, its argument and what it returned
  service,     \* AudioService: its fields, the audio elements it created, the plays awaited
  engine,      \* AudioEngine: its maps and the sample sources it created
  view         \* the node components: their fields, and the engine calls of the last step

vars == <<variant, simulation, driver, nodes, links, alpha, timer, applied,
          threw, last, budget, gnodes, glinks, snodes, slinks, frames, running,
          selection, call, service, engine, view>>

simVars == <<variant, simulation, driver, nodes, links, alpha, timer, applied, budget>>

storeVars == <<gnodes, glinks, snodes, slinks>>

\* what belongs to the component around the simulation and the store
selVars == <<selection, call>>

\* the audio collaborators
audioVars == <<service, engine, view>>

uiVars == <<frames, running, selVars, audioVars>>

----------------------------------------------------------------------------
(* Numbers *)

SCALE == 10 * 10 * 10

Fin(v) == [k |-> "fin", v |-> v]

NaN == [k |-> "nan", v |-> 0]

PInf == [k |-> "inf", v |-> 1]

NInf == [k |-> "inf", v |-> -1]

Undef == [k |-> "undef", v |-> 0]

Zero == Fin(0)

IsFin(a) == a.k = "fin"

IsInf(a) == a.k = "inf"

\* isNaN(a): undefined converts to NaN
IsNaN(a) == a.k \in {"nan", "undef"}

Abs(i) == IF i < 0 THEN -i ELSE i

Sgn(i) == IF i < 0 THEN -1 ELSE IF i > 0 THEN 1 ELSE 0

\* integer quotient truncated toward zero
TruncDiv(a, b) == Sgn(a) * Sgn(b) * (Abs(a) \div Abs(b))

\* a * b / SCALE for naturals, truncated; the larger factor is split so that the
\* intermediate products stay below 2^31
MulNat(a, b) ==
  LET big == IF a >= b THEN a ELSE b
      small == IF a >= b THEN b ELSE a
  IN (big \div SCALE) * small + ((big % SCALE) * small) \div SCALE

Neg(a) == IF IsFin(a) \/ IsInf(a) THEN [a EXCEPT !.v = -a.v] ELSE NaN

Add(a, b) ==
  IF IsNaN(a) \/ IsNaN(b) THEN NaN
  ELSE IF IsInf(a) /\ IsInf(b) THEN (IF a.v = b.v THEN a ELSE NaN)
  ELSE IF IsInf(a) THEN a
  ELSE IF IsInf(b) THEN b
  ELSE Fin(a.v + b.v)

Sub(a, b) == Add(a, Neg(b))

Mul(a, b) ==
  IF IsNaN(a) \/ IsNaN(b) THEN NaN
  ELSE IF IsInf(a) \/ IsInf(b)
       THEN (IF Sgn(a.v) * Sgn(b.v) = 0 THEN NaN
             ELSE IF Sgn(a.v) * Sgn(b.v) > 0 THEN PInf ELSE NInf)
  ELSE Fin(Sgn(a.v) * Sgn(b.v) * MulNat(Abs(a.v), Abs(b.v)))

Div(a, b) ==
  IF IsNaN(a) \/ IsNaN(b) THEN NaN
  ELSE IF IsInf(a) /\ IsInf(b) THEN NaN
  ELSE IF IsInf(a) THEN (IF Sgn(a.v) * (IF b.v < 0 THEN -1 ELSE 1) > 0 THEN PInf ELSE NInf)
  ELSE IF IsInf(b) THEN Zero
  ELSE IF b.v = 0
       THEN (IF a.v = 0 THEN NaN ELSE IF a.v > 0 THEN PInf ELSE NInf)
  ELSE Fin(TruncDiv(a.v * SCALE, b.v))

\* a < b; false when either side is NaN
Lt(a, b) ==
  /\ ~IsNaN(a)
  /\ ~IsNaN(b)
  /\ IF IsInf(a) /\ IsInf(b) THEN a.v < b.v
     ELSE IF IsInf(a) THEN a.v < 0
     ELSE IF IsInf(b) THEN b.v > 0
     ELSE a.v < b.v

\* a > b
Gt(a, b) == Lt(b, a)

\* a >= b
Ge(a, b) == ~IsNaN(a) /\ ~IsNaN(b) /\ ~Lt(a, b)

RECURSIVE ISqrtBetween(_, _, _)
\* the largest s in lo..hi with s*s <= n, by bisection (lo*lo <= n < (hi+1)*(hi+1))
ISqrtBetween(n, lo, hi) ==
  IF lo >= hi THEN lo
  ELSE LET mid == (lo + hi + 1) \div 2
       IN IF mid * mid <= n THEN ISqrtBetween(n, mid, hi)
          ELSE ISqrtBetween(n, lo, mid - 1)

\* floor of the square root of a natural number below 2^31
ISqrt(n) == ISqrtBetween(n, 0, 46340)

\* Math.sqrt(x*x + y*y + z*z): the squares are summed exactly, the root is truncated
Hypot3(x, y, z) ==
  IF IsNaN(x) \/ IsNaN(y) \/ IsNaN(z) THEN NaN
  ELSE IF IsInf(x) \/ IsInf(y) \/ IsInf(z) THEN PInf
  ELSE Fin(ISqrt(x.v * x.v + y.v * y.v + z.v * z.v))

\* a || b for numbers: b when a is 0, NaN or undefined
OrElse(a, b) == IF IsNaN(a) \/ (IsFin(a) /\ a.v = 0) THEN b ELSE a

\* finite, as Number.isFinite
Finite(a) == IsFin(a)

----------------------------------------------------------------------------
(* Tunables of the two variants of forceSimulation (part_003: "ts", part_002: "js") *)

ZStrength == 10

ZDamping == 900

CollideStrength == 700

CollidePadding == 2000

LinkDistanceCentral(v) == IF v = "ts" THEN Fin(4000) ELSE Fin(6000)

LinkDistanceDefault(v) == IF v = "ts" THEN Fin(3000) ELSE Fin(4000)

LinkStrength(v) == IF v = "ts" THEN Fin(700) ELSE Fin(500)

ChargeStrength(v) == IF v = "ts" THEN Fin(-15000) ELSE Fin(-20000)

ChargeDistanceMax(v) == IF v = "ts" THEN 20 ELSE 30

CenterStrength(v) == IF v = "ts" THEN Fin(200) ELSE Fin(100)

RadialDistance(v) == IF v = "ts" THEN Fin(5000) ELSE Fin(8000)

RadialStrength(v) == IF v = "ts" THEN Fin(200) ELSE Fin(300)

PositionalStrength == 10

AlphaDecay(v) == IF v = "ts" THEN 150 ELSE 100

\* simulation.velocityDecay(d) stores 1 - d: the factor each tick multiplies vx and vy by
VelocityKeep(v) == IF v = "ts" THEN Fin(SCALE - 900) ELSE Fin(SCALE - 800)

ReactivationAlpha == 500000

AlphaOne == SCALE * SCALE

\* d3.forceSimulation's default alphaMin, 0.001, in millionths
AlphaMin == SCALE

\* alpha as the forces see it: a number, truncated to the thousandth
AlphaNum(a) == Fin(a \div SCALE)

----------------------------------------------------------------------------
(* forceZ *)

\* the loop body of forceZ's force(alpha) without lines 39 and 42
ForceZNodeUninitialized(node, al, strength, target) ==
  [node EXCEPT !.vz = Add(node.vz, Mul(Mul(al, strength), Sub(target, node.z))),
               !.z = Add(node.z, Mul(Add(node.vz, Mul(Mul(al, strength),
                                                      Sub(target, node.z))),
                                     Fin(ZDamping)))]

\* the loop body of forceZ with the pull applied along x instead of z
ForceZNodeAlongX(node, al, strength, target) ==
  [node EXCEPT !.vx = Add(node.vx, Mul(Mul(al, strength), Sub(target, node.x))),
               !.x = Add(node.x, Mul(Add(node.vx, Mul(Mul(al, strength),
                                                      Sub(target, node.x))),
                                     Fin(ZDamping)))]

\* one pass of the loop body of forceZ's force(alpha) over one node
ForceZNode(node, al, strength, target) ==
  LET vz0 == IF node.vz.k = "undef" THEN Zero ELSE node.vz
      vz1 == OrElse(vz0, Zero)
      vz2 == Add(vz1, Mul(Mul(al, strength), Sub(target, node.z)))
  IN [node EXCEPT !.vz = vz2, !.z = Add(node.z, Mul(vz2, Fin(ZDamping)))]

\* forceZ's force(alpha) over the node array
ForceZ(ns, al, strength, target) ==
  [i \in 1..Len(ns) |-> ForceZNode(ns[i], al, strength, target)]

----------------------------------------------------------------------------
(* forceCollide3D *)

\* the radius accessor create3DForceSimulation passes to forceCollide3D
CollideRadius(v, node) ==
  IF v = "ts"
  THEN (IF IsNaN(node.size) \/ node.size = Zero THEN Fin(800)
        ELSE Mul(node.size, Fin(1500)))
  ELSE OrElse(Mul(node.size, Fin(1200)), Fin(600))

\* quadtree cells are measured in 1/1024 of a thousandth, so that halving stays exact
FINE == 2 ^ 10

\* a number in fine units
ToFine(a) == IF IsFin(a) THEN Fin(a.v * FINE) ELSE a

\* the indices d3.quadtree(nodes, d => d.x, d => d.y) keeps: addAll skips NaN coordinates
TreePoints(ns) == {i \in 1..Len(ns) : IsFin(ns[i].x) /\ IsFin(ns[i].y)}

MinOf(S) == CHOOSE m \in S : \A e \in S : m <= e

MaxOf(S) == CHOOSE m \in S : \A e \in S : m >= e

RECURSIVE CoverSize(_, _)
\* quadtree.cover: the 1x1 cell at the floor of the least corner, doubled until the
\* greatest corner lies inside; w is the distance to cover, s the current size
CoverSize(w, s) == IF w < s THEN s ELSE CoverSize(w, 2 * s)

\* the root cell [x0, y0, size] of the quadtree over ns, in fine units
RootCell(ns) ==
  LET T == TreePoints(ns)
      minx == MinOf({ns[i].x.v : i \in T})
      miny == MinOf({ns[i].y.v : i \in T})
      maxx == MaxOf({ns[i].x.v : i \in T})
      maxy == MaxOf({ns[i].y.v : i \in T})
      x0 == (minx \div SCALE) * SCALE
      y0 == (miny \div SCALE) * SCALE
      w == IF maxx - x0 > maxy - y0 THEN maxx - x0 ELSE maxy - y0
  IN <<x0 * FINE, y0 * FINE, CoverSize(w, SCALE) * FINE>>

\* the node's search box of line 84-90: [nx1, nx2, ny1, ny2]
SearchBox(v, node) ==
  LET r == Add(CollideRadius(v, node), Fin(CollidePadding))
  IN <<Sub(node.x, r), Add(node.x, r), Sub(node.y, r), Add(node.y, r)>>

\* the value the visit callback returns for the cell [x1, x2] x [y1, y2] (fine units):
\* x1 > nx2 || x2 < nx1 || y1 > ny2 || y2 < ny1
Pruned(box, x1, y1, x2, y2) ==
  \/ Gt(Fin(x1), ToFine(box[2]))
  \/ Lt(Fin(x2), ToFine(box[1]))
  \/ Gt(Fin(y1), ToFine(box[4]))
  \/ Lt(Fin(y2), ToFine(box[3]))

RECURSIVE VisitLeaves(_, _, _, _, _, _)
\* quad.visit under the callback of lines 92-125: the data of the leaves the callback
\* is called on, in visiting order.  P is the node array the tree was built from, in
\* the indices of P that lie in the cell [x0, x0+s) x [y0, y0+s).  A cell holding one
\* distinct point is a leaf, whose data is the node added last (the others hang on
\* its .next chain, which the callback never follows); a cell holding more is an
\* internal node, whose children are visited, quadrant 0 to 3, unless the callback
\* returned true for it.
VisitLeaves(P, in, x0, y0, s, box) ==
  IF in = {} THEN <<>>
  ELSE IF \A i, j \in in : P[i].x = P[j].x /\ P[i].y = P[j].y
       THEN <<MaxOf(in)>>
  ELSE IF Pruned(box, x0, y0, x0 + s, y0 + s) THEN <<>>
  ELSE LET h == s \div 2
           quad(i) == (IF P[i].y.v * FINE >= y0 + h THEN 2 ELSE 0)
                      + (IF P[i].x.v * FINE >= x0 + h THEN 1 ELSE 0)
           sub(q) == VisitLeaves(P, {i \in in : quad(i) = q},
                                 x0 + (q % 2) * h, y0 + (q \div 2) * h, h, box)
       IN sub(0) \o sub(1) \o sub(2) \o sub(3)

\* the leaves visited for node i, whose search box is taken from its current position
Visited(v, P, ns, i) ==
  IF TreePoints(P) = {} THEN <<>>
  ELSE LET c == RootCell(P)
       IN VisitLeaves(P, TreePoints(P), c[1], c[2], c[3], SearchBox(v, ns[i]))

\* the factor f of line 106 for the pair, or Zero when the pair does not overlap
CollideFactor(v, a, b, al, strength) ==
  LET dx == Sub(a.x, b.x)
      dy == Sub(a.y, b.y)
      dz == Sub(a.z, b.z)
      l == Hypot3(dx, dy, dz)
      r == Add(CollideRadius(v, a), CollideRadius(v, b))
  IN IF Lt(l, r) THEN Mul(Mul(Div(Sub(l, r), l), al), strength) ELSE Zero

\* whether the callback corrects node a against otherNode b: l < r (line 104)
Overlaps(v, a, b) ==
  Lt(Hypot3(Sub(a.x, b.x), Sub(a.y, b.y), Sub(a.z, b.z)),
     Add(CollideRadius(v, a), CollideRadius(v, b)))

\* lines 95-120 with the distance taken in the x-y plane of the quadtree
CollidePairInPlane(v, ns, i, o, al, strength) ==
  IF o = i \/ ~Lt(Hypot3(Sub(ns[i].x, ns[o].x), Sub(ns[i].y, ns[o].y), Zero),
                  Add(CollideRadius(v, ns[i]), CollideRadius(v, ns[o]))) THEN ns
  ELSE LET a == ns[i]
           b == ns[o]
           l == Hypot3(Sub(a.x, b.x), Sub(a.y, b.y), Zero)
           r == Add(CollideRadius(v, a), CollideRadius(v, b))
           f == Mul(Mul(Div(Sub(l, r), l), al), strength)
           fx == Mul(Sub(a.x, b.x), f)
           fy == Mul(Sub(a.y, b.y), f)
           fz == Mul(Sub(a.z, b.z), f)
       IN [ns EXCEPT ![i] = [a EXCEPT !.x = Sub(a.x, fx), !.y = Sub(a.y, fy),
                                      !.z = Sub(a.z, fz)],
                     ![o] = [b EXCEPT !.x = Add(b.x, fx), !.y = Add(b.y, fy),
                                      !.z = Add(b.z, fz)]]

\* lines 95-120 with the signs of lines 114-120 exchanged
CollidePairInward(v, ns, i, o, al, strength) ==
  IF o = i \/ ~Overlaps(v, ns[i], ns[o]) THEN ns
  ELSE LET a == ns[i]
           b == ns[o]
           f == CollideFactor(v, a, b, al, strength)
           fx == Mul(Sub(a.x, b.x), f)
           fy == Mul(Sub(a.y, b.y), f)
           fz == Mul(Sub(a.z, b.z), f)
       IN [ns EXCEPT ![i] = [a EXCEPT !.x = Add(a.x, fx), !.y = Add(a.y, fy),
                                      !.z = Add(a.z, fz)],
                     ![o] = [b EXCEPT !.x = Sub(b.x, fx), !.y = Sub(b.y, fy),
                                      !.z = Sub(b.z, fz)]]

\* lines 95-120 for node i against otherNode o
CollidePair(v, ns, i, o, al, strength) ==
  IF o = i \/ ~Overlaps(v, ns[i], ns[o]) THEN ns
  ELSE LET a == ns[i]
           b == ns[o]
           f == CollideFactor(v, a, b, al, strength)
           fx == Mul(Sub(a.x, b.x), f)
           fy == Mul(Sub(a.y, b.y), f)
           fz == Mul(Sub(a.z, b.z), f)
       IN [ns EXCEPT ![i] = [a EXCEPT !.x = Sub(a.x, fx), !.y = Sub(a.y, fy),
                                      !.z = Sub(a.z, fz)],
                     ![o] = [b EXCEPT !.x = Add(b.x, fx), !.y = Add(b.y, fy),
                                      !.z = Add(b.z, fz)]]

RECURSIVE CollideVisit(_, _, _, _, _, _)
\* the callback applied along the visiting order for node i
CollideVisit(v, ns, i, order, al, strength) ==
  IF order = <<>> THEN ns
  ELSE CollideVisit(v, CollidePair(v, ns, i, Head(order), al, strength),
                    i, Tail(order), al, strength)

RECURSIVE CollideFrom(_, _, _, _, _, _)
\* the loop of line 82 from node i on; P is the array as it was when the tree was built
CollideFrom(v, P, ns, i, al, strength) ==
  IF i > Len(ns) THEN ns
  ELSE CollideFrom(v, P, CollideVisit(v, ns, i, Visited(v, P, ns, i), al, strength),
                   i + 1, al, strength)

\* forceCollide3D's force(alpha)
ForceCollide3D(v, ns, al, strength) == CollideFrom(v, ns, ns, 1, al, strength)

----------------------------------------------------------------------------
(* The d3 forces create3DForceSimulation registers.  d3-force is a dependency, not *)
(* part of the repository: each force follows d3-force's published algorithm, with  *)
(* the tunables of lines 148-180.  jiggle(random), d3's tiny random offset for      *)
(* coincident points, is the input jig: plus or minus one thousandth.               *)

CentralId == "central-node"

\* the link force may use link k: both endpoints have been resolved to node objects
Resolved(l) == l.s > 0 /\ l.t > 0

RECURSIVE ResolvedPrefix(_)
\* the links before the first one that still holds an id string
ResolvedPrefix(ls) ==
  IF ls = <<>> \/ ~Resolved(Head(ls)) THEN <<>>
  ELSE <<Head(ls)>> \o ResolvedPrefix(Tail(ls))

\* the distance accessor of lines 150-156 testing d.source only
LinkDistanceBySource(v, ns, l) ==
  IF ns[l.s].id = CentralId THEN LinkDistanceCentral(v) ELSE LinkDistanceDefault(v)

\* the distance accessor of lines 150-156
LinkDistance(v, ns, l) ==
  IF ns[l.s].id = CentralId \/ ns[l.t].id = CentralId
  THEN LinkDistanceCentral(v) ELSE LinkDistanceDefault(v)

\* forceLink's count[i]: the number of link ends at node i
LinkCount(ls, i) ==
  Cardinality({k \in 1..Len(ls) : ls[k].s = i}) + Cardinality({k \in 1..Len(ls) : ls[k].t = i})

\* forceLink's bias[k] = count[source] / (count[source] + count[target])
LinkBias(ls, k) ==
  Div(Fin(LinkCount(ls, ls[k].s) * SCALE),
      Fin((LinkCount(ls, ls[k].s) + LinkCount(ls, ls[k].t)) * SCALE))

\* forceLink's loop body for link k of the resolved links rs
LinkStep(v, ns, rs, k, al, jig) ==
  LET src == ns[rs[k].s]
      tgt == ns[rs[k].t]
      x0 == OrElse(Sub(Sub(Add(tgt.x, tgt.vx), src.x), src.vx), jig)
      y0 == OrElse(Sub(Sub(Add(tgt.y, tgt.vy), src.y), src.vy), jig)
      l0 == Hypot3(x0, y0, Zero)
      l == Mul(Mul(Div(Sub(l0, LinkDistance(v, ns, rs[k])), l0), al), LinkStrength(v))
      x == Mul(x0, l)
      y == Mul(y0, l)
      b == LinkBias(rs, k)
      b1 == Sub(Fin(SCALE), b)
      n1 == [ns EXCEPT ![rs[k].t] = [tgt EXCEPT !.vx = Sub(tgt.vx, Mul(x, b)),
                                               !.vy = Sub(tgt.vy, Mul(y, b))]]
      s1 == n1[rs[k].s]
  IN [n1 EXCEPT ![rs[k].s] = [s1 EXCEPT !.vx = Add(s1.vx, Mul(x, b1)),
                                        !.vy = Add(s1.vy, Mul(y, b1))]]

RECURSIVE LinkFrom(_, _, _, _, _, _)
LinkFrom(v, ns, rs, k, al, jig) ==
  IF k > Len(rs) THEN ns
  ELSE LinkFrom(v, LinkStep(v, ns, rs, k, al, jig), rs, k + 1, al, jig)

\* d3.forceLink's force(alpha) over the links it can use; a link that still holds
\* an id string makes it throw a TypeError there (LinkThrows)
ForceLink(v, ns, ls, al, jig) == LinkFrom(v, ns, ResolvedPrefix(ls), 1, al, jig)

LinkThrows(ls) == \E k \in 1..Len(ls) : ~Resolved(ls[k])

\* d3.forceManyBody's pull of node j on node i, added to i's velocity.  Every pair is
\* computed directly (the Barnes-Hut grouping of far cells is not modelled).
ChargeOn(v, ns, i, j, al, jig) ==
  LET a == ns[i]
      dx == Sub(ns[j].x, a.x)
      dy == Sub(ns[j].y, a.y)
  IN IF IsNaN(dx) \/ IsNaN(dy) THEN [a EXCEPT !.vx = NaN, !.vy = NaN]
     ELSE IF dx.v * dx.v + dy.v * dy.v
             >= ChargeDistanceMax(v) * ChargeDistanceMax(v) * SCALE * SCALE THEN a
     ELSE LET x == IF dx.v = 0 THEN jig ELSE dx
              y == IF dy.v = 0 THEN jig ELSE dy
              l2 == x.v * x.v + y.v * y.v
              l == IF l2 < SCALE * SCALE THEN Fin(ISqrt(l2)) ELSE Fin(l2 \div SCALE)
              w == Div(Mul(ChargeStrength(v), al), l)
          IN [a EXCEPT !.vx = Add(a.vx, Mul(x, w)), !.vy = Add(a.vy, Mul(y, w))]

RECURSIVE ChargeNode(_, _, _, _, _, _)
\* node i after the pull of every node of js (indices, in increasing order)
ChargeNode(v, ns, i, js, al, jig) ==
  IF js = {} THEN ns[i]
  ELSE LET j == MinOf(js)
           rest == ChargeNode(v, ns, i, js \ {j}, al, jig)
       IN ChargeOn(v, [ns EXCEPT ![i] = rest], i, j, al, jig)

\* d3.forceManyBody's force(alpha): the quadtree holds the nodes with numeric x and y
ForceManyBody(v, ns, al, jig) ==
  [i \in 1..Len(ns) |-> ChargeNode(v, ns, i, TreePoints(ns) \ {i}, al, jig)]

RECURSIVE SumOf(_, _)
SumOf(ns, f) == IF ns = <<>> THEN Zero ELSE Add(SumOf(Tail(ns), f), Head(ns)[f])

\* d3.forceCenter's force(): shifts every node by strength times the centroid
ForceCenter(v, ns) ==
  IF ns = <<>> THEN ns
  ELSE LET n == Fin(Len(ns) * SCALE)
           sx == Mul(Div(SumOf(ns, "x"), n), CenterStrength(v))
           sy == Mul(Div(SumOf(ns, "y"), n), CenterStrength(v))
       IN [i \in 1..Len(ns) |-> [ns[i] EXCEPT !.x = Sub(ns[i].x, sx), !.y = Sub(ns[i].y, sy)]]

\* the radius accessor of lines 165-167
RadialTarget(v, node) == IF node.id = CentralId THEN Zero ELSE RadialDistance(v)

\* d3.forceRadial's force(alpha), centre (0, 0)
ForceRadial(v, ns, al) ==
  [i \in 1..Len(ns) |->
    LET dx == OrElse(ns[i].x, Fin(1))
        dy == OrElse(ns[i].y, Fin(1))
        r == Hypot3(dx, dy, Zero)
        k == Div(Mul(Mul(Sub(RadialTarget(v, ns[i]), r), RadialStrength(v)), al), r)
    IN [ns[i] EXCEPT !.vx = Add(ns[i].vx, Mul(dx, k)), !.vy = Add(ns[i].vy, Mul(dy, k))]]

\* d3.forceX().strength(0.01) and d3.forceY().strength(0.01), target 0
ForceX(ns, al) ==
  [i \in 1..Len(ns) |->
    [ns[i] EXCEPT !.vx = Add(ns[i].vx, Mul(Mul(Sub(Zero, ns[i].x), Fin(PositionalStrength)), al))]]

ForceY(ns, al) ==
  [i \in 1..Len(ns) |->
    [ns[i] EXCEPT !.vy = Add(ns[i].vy, Mul(Mul(Sub(Zero, ns[i].y), Fin(PositionalStrength)), al))]]

\* the end of d3's tick: node.x += node.vx *= velocityDecay, and the same for y
Integrate(v, ns) ==
  [i \in 1..Len(ns) |->
    LET vx == Mul(ns[i].vx, VelocityKeep(v))
        vy == Mul(ns[i].vy, VelocityKeep(v))
    IN [ns[i] EXCEPT !.vx = vx, !.vy = vy, !.x = Add(ns[i].x, vx), !.y = Add(ns[i].y, vy)]]

\* d3's tick with the sign of the decay reversed
DecayAlphaGrowing(v, a) == a + (a * AlphaDecay(v)) \div SCALE

\* alpha += (alphaTarget - alpha) * alphaDecay, alphaTarget 0; in millionths
DecayAlpha(v, a) == a - (a * AlphaDecay(v)) \div SCALE

----------------------------------------------------------------------------
(* d3.forceSimulation: node and link initialization, tick *)

\* d3's initial placement of node number i (from 0) whose x or y is NaN:
\* radius 10 * sqrt(0.5 + i), angle i * pi * (3 - sqrt(5))
Phyllotaxis(i) ==
  CASE i = 0 -> <<7071, 0>>
    [] i = 1 -> <<-9031, 8273>>
    [] i = 2 -> <<1382, -15751>>
    [] i = 3 -> <<11383, 14847>>
    [] i = 4 -> <<-20889, -3695>>
    [] OTHER -> <<19788, -12587>>

\* d3.forceSimulation's initializeNodes, run by forceSimulation(nodes) and by
\* simulation.nodes(nodes)
InitializeNodes(ns) ==
  [i \in 1..Len(ns) |->
    LET n == ns[i]
        seed == IsNaN(n.x) \/ IsNaN(n.y)
        still == IsNaN(n.vx) \/ IsNaN(n.vy)
    IN [n EXCEPT !.x = IF seed THEN Fin(Phyllotaxis(i - 1)[1]) ELSE n.x,
                 !.y = IF seed THEN Fin(Phyllotaxis(i - 1)[2]) ELSE n.y,
                 !.vx = IF still THEN Zero ELSE n.vx,
                 !.vy = IF still THEN Zero ELSE n.vy]]

\* forceLink's find(nodeById, id): the Map keeps the last node given for an id; 0: none
Find(ns, id) ==
  IF \E i \in 1..Len(ns) : ns[i].id = id
  THEN MaxOf({i \in 1..Len(ns) : ns[i].id = id}) ELSE 0

RECURSIVE ResolveFrom(_, _, _)
\* forceLink's initialize(): replaces the id strings of each link by the node objects,
\* link by link, source first; find throws "node not found" at the first id no node has
ResolveFrom(ns, ls, k) ==
  IF k > Len(ls) THEN [links |-> ls, ok |-> TRUE]
  ELSE LET s == IF ls[k].s > 0 THEN ls[k].s ELSE Find(ns, ls[k].source)
           t == IF ls[k].t > 0 THEN ls[k].t ELSE Find(ns, ls[k].target)
       IN IF s = 0 THEN [links |-> ls, ok |-> FALSE]
          ELSE IF t = 0 THEN [links |-> [ls EXCEPT ![k].s = s], ok |-> FALSE]
          ELSE ResolveFrom(ns, [ls EXCEPT ![k].s = s, ![k].t = t], k + 1)

InitializeLinks(ns, ls) == ResolveFrom(ns, ls, 1)

\* the link force initialized over nodes already initialized
WithNodes(ns, r) == [nodes |-> ns, links |-> r.links, ok |-> r.ok]

\* forceSimulation(nodes) or simulation.nodes(nodes) followed by the initialization of
\* the link force: initializeNodes, then forceLink's initialize
Rebind(ns, ls) == WithNodes(InitializeNodes(ns), InitializeLinks(InitializeNodes(ns), ls))

\* the forces in the order create3DForceSimulation registers them (lines 150-175)
Registered == <<"link", "charge", "center", "radial", "x", "y", "z", "collide">>

\* force(alpha) of the force registered under name
ApplyForce(name, v, ns, ls, al, jig) ==
  CASE name = "link" -> ForceLink(v, ns, ls, al, jig)
    [] name = "charge" -> ForceManyBody(v, ns, al, jig)
    [] name = "center" -> ForceCenter(v, ns)
    [] name = "radial" -> ForceRadial(v, ns, al)
    [] name = "x" -> ForceX(ns, al)
    [] name = "y" -> ForceY(ns, al)
    [] name = "z" -> ForceZ(ns, al, Fin(ZStrength), Zero)
    [] OTHER -> ForceCollide3D(v, ns, al, Fin(CollideStrength))

RECURSIVE ApplyForces(_, _, _, _, _, _)
\* the forces named, applied one after the other
ApplyForces(names, v, ns, ls, al, jig) ==
  IF names = <<>> THEN ns
  ELSE ApplyForces(Tail(names), v, ApplyForce(Head(names), v, ns, ls, al, jig), ls, al, jig)

\* d3's own tick() once alpha has decayed to a1: every registered force is applied in
\* the order of registration, then positions are integrated.  A link that still holds
\* an id string makes the link force throw, which ends the tick there.
TickWith(v, ns, ls, a1, jig) ==
  IF LinkThrows(ls)
  THEN [nodes |-> ApplyForces(<<"link">>, v, ns, ls, AlphaNum(a1), jig),
        alpha |-> a1, applied |-> <<"link">>, threw |-> "TypeError"]
  ELSE [nodes |-> Integrate(v, ApplyForces(Registered, v, ns, ls, AlphaNum(a1), jig)),
        alpha |-> a1, applied |-> Registered, threw |-> "none"]

\* d3's own tick(): alpha += (alphaTarget - alpha) * alphaDecay, then the forces
OriginalTick(v, ns, ls, a, jig) == TickWith(v, ns, ls, DecayAlpha(v, a), jig)

\* what the override of lines 184-200 runs after the original tick
Again == <<"z", "collide">>

\* lines 187-199: after the original tick r, the z force and the collision force are
\* called once more with simulation.alpha()
Override(v, r, ls, jig) ==
  IF r.threw # "none" THEN r
  ELSE [r EXCEPT !.nodes = ApplyForces(Again, v, r.nodes, ls, AlphaNum(r.alpha), jig),
                 !.applied = r.applied \o Again]

\* simulation.tick as overridden in lines 183-200
OverriddenTick(v, ns, ls, a, jig) == Override(v, OriginalTick(v, ns, ls, a, jig), ls, jig)

----------------------------------------------------------------------------
(* Inputs *)

MaxTicks == 3

MaxAdds == 1

LongTicks == 45

Jiggles == {Fin(-1), Fin(1)}

\* a node object as the graph collaborator creates it: no velocities yet
Node(id, x, y, z, size) ==
  [id |-> id, x |-> Fin(x), y |-> Fin(y), z |-> Fin(z),
   vx |-> Undef, vy |-> Undef, vz |-> Undef, size |-> size]

\* a link as the graph store creates it: both ends are id strings
Link(source, target) == [source |-> source, target |-> target, s |-> 0, t |-> 0]

Central(x, y, z) == Node(CentralId, x, y, z, Fin(1200))

\* the graphs a run may start from: <<nodes, links>>
Graphs ==
  { <<<<Central(0, 0, 0), Node("node-1", 5000, 3000, 2000, Fin(800))>>,
      <<Link(CentralId, "node-1")>>>>,
    <<<<Central(0, 0, 0), Node("node-1", 0, 0, 0, Undef)>>, <<>>>>,
    <<<<Central(0, 0, 0), Node("node-1", 1000, 0, 0, Undef)>>,
      <<Link("node-1", CentralId)>>>>,
    <<<<Central(0, 0, 0), Node("node-1", 500, 0, 4000, Fin(500))>>, <<>>>>,
    <<<<Node("node-1", 2000, 1000, 0, Fin(500)), Node("node-2", 2000, 1000, 1000, Undef)>>,
      <<Link("node-1", "node-2")>>>>,
    <<<<Central(0, 0, 0), Node("node-1", 5000, 3000, 2000, Fin(800))>>,
      <<Link(CentralId, "node-9")>>>> }

\* the nodes and links a collaborator may append while the simulation runs
NewNodes ==
  { Node("node-2", 1000, 0, 0, Undef), Node("node-9", -4000, 2000, -3000, Fin(700)) }

NewLinks == { Link(CentralId, "node-1"), Link("node-1", "node-9") }

----------------------------------------------------------------------------
(* The simulation as a state machine *)

StoreIdle == gnodes = <<>> /\ glinks = <<>> /\ snodes = <<>> /\ slinks = <<>>

\* writable(null) of selectionStore.js line 8; initialState of selectionStore.ts
NoSelection == "null"

\* the selection store as created
SelIdle == selection = NoSelection /\ call = [op |-> "none", arg |-> NoSelection, value |-> FALSE]

\* no stabilization controller at work
\* no audio element yet
NoElement == 0

\* the AudioService as constructed (lines 5-17): every field null or false
ServiceIdle ==
  service = [audioContext |-> FALSE, audioElement |-> NoElement, source |-> NoElement,
             isPlaying |-> FALSE, currentAudioFile |-> "null",
             elements |-> <<>>, awaiting |-> {}]

\* the nodes whose sounds the engine is asked to play
EngineNodes == {CentralId, "node-1"}

\* the AudioEngine as constructed (lines 31-55, 201): every map empty.  gain is the gain
\* scheduled on the node's oscillator: "none" without an oscillator, else "silent",
\* "on" (ramped to 0.2 and held) or "pulse" (ramped to 0.2, then to 0 after duration)
EngineIdle ==
  engine = [audioBuffers |-> {}, sources |-> <<>>,
            audioSources |-> [n \in EngineNodes |-> NoElement],
            gain |-> [n \in EngineNodes |-> "none"],
            loopingSounds |-> [n \in EngineNodes |-> FALSE]]

\* the node components before they are mounted (third script of NodeGraph.svelte, lines
\* 517-523, 572): no mesh, not selected, no animation frame requested, audioEngine null
ViewIdle ==
  view = [of |-> [n \in EngineNodes |-> [mesh |-> FALSE, isSelected |-> FALSE,
                                          animationId |-> FALSE, audioEngine |-> FALSE]],
          calls |-> <<>>]

UiIdle == frames = 0 /\ running = FALSE /\ SelIdle /\ ServiceIdle /\ EngineIdle /\ ViewIdle

InitWith(G, V, D, B, A) ==
  /\ variant \in V
  /\ driver \in D
  /\ \E g \in G : nodes = g[1] /\ links = g[2]
  /\ simulation = "null"
  /\ alpha = 0
  /\ timer = FALSE
  /\ applied = <<>>
  /\ threw = "none"
  /\ last = "init"
  /\ budget = [ticks |-> B, adds |-> A]
  /\ StoreIdle
  /\ UiIdle

Init == InitWith(Graphs, {"ts", "js"}, {"tick", "timer"}, MaxTicks, MaxAdds)

\* create3DForceSimulation(nodes, links)
Create ==
  /\ simulation = "null"
  /\ last = "init"
  /\ \E r \in {Rebind(nodes, links)} :
        /\ nodes' = r.nodes
        /\ links' = r.links
        /\ simulation' = IF r.ok THEN "sim" ELSE "null"
        /\ threw' = IF r.ok THEN "none" ELSE "Error: node not found"
        /\ alpha' = IF r.ok THEN AlphaOne ELSE alpha
        /\ timer' = r.ok
  /\ last' = "create"
  /\ applied' = <<>>
  /\ UNCHANGED <<variant, driver, budget, storeVars, uiVars>>

\* simulation.tick()
Tick ==
  /\ simulation = "sim"
  /\ driver = "tick"
  /\ budget.ticks > 0
  /\ \E jig \in Jiggles :
       \E r \in {OverriddenTick(variant, nodes, links, alpha, jig)} :
          /\ nodes' = r.nodes
          /\ alpha' = r.alpha
          /\ applied' = r.applied
          /\ threw' = r.threw
  /\ last' = "tick"
  /\ budget' = [budget EXCEPT !.ticks = @ - 1]
  /\ UNCHANGED <<variant, driver, simulation, links, timer, storeVars, uiVars>>

\* d3's stepper, run by its timer while the simulation is active: step() calls d3's
\* own tick, not the overridden simulation.tick, and stops below alphaMin
TimerStep ==
  /\ simulation = "sim"
  /\ driver = "timer"
  /\ timer
  /\ budget.ticks > 0
  /\ \E jig \in Jiggles :
       \E r \in {OriginalTick(variant, nodes, links, alpha, jig)} :
          /\ nodes' = r.nodes
          /\ alpha' = r.alpha
          /\ applied' = r.applied
          /\ threw' = r.threw
          /\ timer' = (r.threw # "none" \/ r.alpha >= AlphaMin)
  /\ last' = "step"
  /\ budget' = [budget EXCEPT !.ticks = @ - 1]
  /\ UNCHANGED <<variant, driver, simulation, links, storeVars, uiVars>>

\* addNodeToSimulation(simulation, node)
AddNode(node) ==
  /\ last # "init"
  /\ budget.adds > 0
  /\ budget' = [budget EXCEPT !.adds = @ - 1]
  /\ last' = "addNode"
  /\ IF simulation = "null"
     THEN /\ threw' = "none"
          /\ UNCHANGED <<nodes, links, alpha, timer>>
     ELSE \E r \in {Rebind(Append(nodes, node), links)} :
             /\ nodes' = r.nodes
             /\ links' = r.links
             /\ threw' = IF r.ok THEN "none" ELSE "Error: node not found"
             /\ alpha' = IF r.ok THEN ReactivationAlpha ELSE alpha
             /\ timer' = (r.ok \/ timer)
  /\ UNCHANGED <<variant, driver, simulation, applied, storeVars, uiVars>>

\* addLinkToSimulation(simulation, link)
AddLink(link) ==
  /\ last # "init"
  /\ budget.adds > 0
  /\ budget' = [budget EXCEPT !.adds = @ - 1]
  /\ last' = "addLink"
  /\ IF simulation = "null"
     THEN /\ threw' = "none"
          /\ UNCHANGED <<nodes, links, alpha, timer>>
     ELSE \E r \in {InitializeLinks(nodes, Append(links, link))} :
             /\ links' = r.links
             /\ threw' = IF r.ok THEN "none" ELSE "Error: node not found"
             /\ alpha' = IF r.ok THEN ReactivationAlpha ELSE alpha
             /\ timer' = (r.ok \/ timer)
             /\ UNCHANGED nodes
  /\ UNCHANGED <<variant, driver, simulation, applied, storeVars, uiVars>>

Next ==
  \/ Create
  \/ Tick
  \/ TimerStep
  \/ \E node \in NewNodes : AddNode(node)
  \/ \E link \in NewLinks : AddLink(link)

Spec == Init /\ [][Next]_vars

\* the graph of the store's initial state, cut down to the central node and two others
StoreLike ==
  <<<<Central(0, 0, 0), Node("node-1", 5000, 3000, 2000, Fin(800)),
      Node("node-2", -4000, 2000, -3000, Fin(700))>>,
    <<Link(CentralId, "node-1"), Link(CentralId, "node-2")>>>>

\* long runs, in which alpha decays until the simulation is all but frozen, with one
\* addition at any moment
LongInit == InitWith({StoreLike}, {"ts", "js"}, {"tick", "timer"}, LongTicks, 1)

SpecLong == LongInit /\ [][Next]_vars

----------------------------------------------------------------------------
(* The two custom forces called on their own, as lines 187-197 call them:        *)
(* force.initialize(nodes), then force(alpha)                                     *)

\* the coordinates a placed node may have on each axis, in thousandths
Coords == {0, 500, 3000}

\* the alphas the forces are called with, in millionths
Alphas == {AlphaOne, ReactivationAlpha, 20 * SCALE}

\* the node arrays the forces are initialized with: a pair whose second node takes
\* every placement, with and without a size, and three nodes in a row
Placements ==
  { <<Central(0, 0, 0), Node("node-1", x, y, z, size)>> :
      x \in Coords, y \in Coords, z \in Coords, size \in {Undef, Fin(800)} }
  \cup { <<Node("node-1", 0, 0, 0, Undef), Node("node-2", 500, 0, 0, Undef),
           Node("node-3", x, 0, 500, Fin(800))>> : x \in Coords }

ForceInit ==
  /\ variant \in {"ts", "js"}
  /\ driver = "force"
  /\ nodes \in Placements
  /\ links = <<>>
  /\ simulation = "null"
  /\ alpha \in Alphas
  /\ timer = FALSE
  /\ applied = <<>>
  /\ threw = "none"
  /\ last = "init"
  /\ budget = [ticks |-> MaxTicks, adds |-> 0]
  /\ StoreIdle
  /\ UiIdle

\* collideForce(alpha)
CollideOnce ==
  /\ driver = "force"
  /\ budget.ticks > 0
  /\ nodes' = ForceCollide3D(variant, nodes, AlphaNum(alpha), Fin(CollideStrength))
  /\ applied' = <<"collide">>
  /\ last' = "collide"
  /\ budget' = [budget EXCEPT !.ticks = @ - 1]
  /\ UNCHANGED <<variant, driver, simulation, links, alpha, timer, threw, storeVars, uiVars>>

\* zForce(alpha)
ZOnce ==
  /\ driver = "force"
  /\ budget.ticks > 0
  /\ nodes' = ForceZ(nodes, AlphaNum(alpha), Fin(ZStrength), Zero)
  /\ applied' = <<"z">>
  /\ last' = "z"
  /\ budget' = [budget EXCEPT !.ticks = @ - 1]
  /\ UNCHANGED <<variant, driver, simulation, links, alpha, timer, threw, storeVars, uiVars>>

ForceNext == CollideOnce \/ ZOnce

SpecForce == ForceInit /\ [][ForceNext]_vars

----------------------------------------------------------------------------
(* Properties of the forces *)

FinitePosition(n) == Finite(n.x) /\ Finite(n.y) /\ Finite(n.z)

AllFinite(ns) == \A i \in 1..Len(ns) : FinitePosition(ns[i])

SamePlace(a, b) == FinitePosition(a) /\ a.x = b.x /\ a.y = b.y /\ a.z = b.z

Coincident(ns) == \E i, j \in 1..Len(ns) : i # j /\ SamePlace(ns[i], ns[j])

\* C1: one application of the collision force to an array holding two distinct nodes
\* at identical finite coordinates leaves every coordinate of every node finite.
ZeroDistanceGuard ==
  [][(last' = "collide" /\ AllFinite(nodes) /\ Coincident(nodes)) => AllFinite(nodes')]_vars

\* C3: an application of the collision force leaves the sum of the node positions
\* unchanged on every axis (what one node of a pair receives the other loses).
CollisionSymmetry ==
  [][(last' = "collide" /\ AllFinite(nodes))
       => \A f \in {"x", "y", "z"} : SumOf(nodes', f) = SumOf(nodes, f)]_vars

\* the velocity the z force is said to store: 0.9 * (vz + alpha * strength * (target - z))
DampedVz(n, al, strength, target) ==
  Mul(Fin(ZDamping),
      Add(OrElse(n.vz, Zero), Mul(Mul(al, strength), Sub(target, n.z))))

\* C10: each application of the z force stores vz := 0.9 * (vz + alpha * strength *
\* (target - z)) and advances z by that damped velocity.
ZDampsStoredVelocity ==
  [][last' = "z" =>
       \A i \in 1..Len(nodes) :
         /\ nodes'[i].vz = DampedVz(nodes[i], AlphaNum(alpha), Fin(ZStrength), Zero)
         /\ nodes'[i].z = Add(nodes[i].z,
                              DampedVz(nodes[i], AlphaNum(alpha), Fin(ZStrength), Zero))]_vars

----------------------------------------------------------------------------
(* Properties of the running simulation *)

Ticked == last \in {"tick", "step"} /\ threw = "none"

\* C2: after any number of ticks, interleaved with additions of nodes and links, every
\* node's x, y, z and vz is a finite number.
FinitenessInvariant ==
  Ticked => \A i \in 1..Len(nodes) : FinitePosition(nodes[i]) /\ Finite(nodes[i].vz)

\* C4: a call of simulation.tick() applies each registered force exactly once, in the
\* order link, charge, center, radial, x, y, z, collide.
EachForceOnceInOrder ==
  (last = "tick" /\ threw = "none")
    => applied = <<"link", "charge", "center", "radial", "x", "y", "z", "collide">>

\* C6: addNodeToSimulation makes the node array one longer with the new node last and
\* every node present before still in its place with its id and position; with a null
\* simulation it changes nothing and does not throw.
AddNodeAppendsInPlace ==
  [][last' = "addNode" =>
       IF simulation = "null"
       THEN nodes' = nodes /\ threw' = "none"
       ELSE /\ Len(nodes') = Len(nodes) + 1
            /\ \E n \in NewNodes : nodes'[Len(nodes')].id = n.id
            /\ \A i \in 1..Len(nodes) :
                 /\ nodes'[i].id = nodes[i].id
                 /\ nodes'[i].x = nodes[i].x
                 /\ nodes'[i].y = nodes[i].y
                 /\ nodes'[i].z = nodes[i].z]_vars

\* C7: a link with an end that matches no node never causes an exception, neither at
\* the creation of the simulation, nor when it is added, nor during a tick.
UnresolvableLinkNeverThrows == threw = "none"

\* alpha below 0.01, in millionths
Frozen(a) == a < 10 * SCALE

\* C5: adding a node or a link to a simulation whose alpha has decayed below 0.01
\* leaves alpha at 0.5 or more.
ReactivationAfterAdd ==
  [][(simulation = "sim" /\ Frozen(alpha) /\ last' \in {"addNode", "addLink"})
       => alpha' >= ReactivationAlpha]_vars

----------------------------------------------------------------------------
(* The graph store and the operations of the node graph component on it *)

MaxStoreOps == 4

\* `node-${n}` of NodeGraph.svelte line 317, for the node counts a run can reach
NodeIds ==
  <<"node-0", "node-1", "node-2", "node-3", "node-4", "node-5", "node-6", "node-7",
    "node-8", "node-9", "node-10", "node-11", "node-12">>

NodeId(n) == NodeIds[n + 1]

\* a link object of the store; so and to tell whether d3 has replaced the id string of
\* that end by the node object
StoreLink(source, target) == [source |-> source, target |-> target, so |-> FALSE, to |-> FALSE]

\* link.source.id and link.target.id: undefined while the end is still an id string
SourceId(l) == IF l.so THEN l.source ELSE "undefined"

TargetId(l) == IF l.to THEN l.target ELSE "undefined"

\* initialState of the store (lines 67-131): the ids of the nodes, and the links
InitialNodes == <<CentralId, "node-1", "node-2", "node-3", "node-4">>

InitialLinks == [k \in 1..4 |-> StoreLink(CentralId, NodeId(k))]

Ids(ns) == {ns[i] : i \in 1..Len(ns)}

StoreInit ==
  /\ gnodes = InitialNodes
  /\ glinks = InitialLinks
  /\ snodes = <<>>
  /\ slinks = <<>>
  /\ variant = "js"
  /\ driver = "store"
  /\ nodes = <<>>
  /\ links = <<>>
  /\ simulation = "null"
  /\ alpha = 0
  /\ timer = FALSE
  /\ applied = <<>>
  /\ threw = "none"
  /\ last = "init"
  /\ budget = [ticks |-> 0, adds |-> MaxStoreOps]
  /\ UiIdle

RECURSIVE ResolveStoreLinks(_, _, _)
\* forceLink's initialize() over the store's link objects: each end still an id string
\* is replaced by the node object, until an id that no node has makes find throw
ResolveStoreLinks(ids, ls, k) ==
  IF k > Len(ls) THEN [links |-> ls, ok |-> TRUE]
  ELSE IF ~ls[k].so /\ ls[k].source \notin ids THEN [links |-> ls, ok |-> FALSE]
  ELSE IF ~ls[k].to /\ ls[k].target \notin ids
       THEN [links |-> [ls EXCEPT ![k].so = TRUE], ok |-> FALSE]
  ELSE ResolveStoreLinks(ids, [ls EXCEPT ![k].so = TRUE, ![k].to = TRUE], k + 1)

\* onMount: simulation = create3DForceSimulation(nodes, links), on the store's arrays
Mount ==
  /\ driver = "store"
  /\ simulation = "null"
  /\ budget.adds > 0
  /\ \E r \in {ResolveStoreLinks(Ids(gnodes), glinks, 1)} :
        /\ glinks' = r.links
        /\ slinks' = r.links
        /\ simulation' = IF r.ok THEN "sim" ELSE "null"
        /\ threw' = IF r.ok THEN "none" ELSE "Error: node not found"
  /\ snodes' = gnodes
  /\ last' = "mount"
  /\ budget' = [budget EXCEPT !.adds = @ - 1]
  /\ UNCHANGED <<variant, driver, nodes, links, alpha, timer, applied, gnodes, uiVars>>

\* the component's addNode(): the new node is named after the number of nodes and
\* linked to the central node by a link with id strings
UiAddNode ==
  /\ driver = "store"
  /\ budget.adds > 0
  /\ gnodes' = Append(gnodes, NodeId(Len(gnodes)))
  /\ glinks' = Append(glinks, StoreLink(CentralId, NodeId(Len(gnodes))))
  /\ last' = "uiAddNode"
  /\ threw' = "none"
  /\ budget' = [budget EXCEPT !.adds = @ - 1]
  /\ UNCHANGED <<variant, driver, simulation, nodes, links, alpha, timer, applied, snodes,
                 slinks, uiVars>>

\* graphStore.removeNode(nodeId)
RemoveNode(nodeId) ==
  /\ driver = "store"
  /\ budget.adds > 0
  /\ gnodes' = SelectSeq(gnodes, LAMBDA id : id # nodeId)
  /\ glinks' = SelectSeq(glinks, LAMBDA l : SourceId(l) # nodeId /\ TargetId(l) # nodeId)
  /\ last' = "removeNode"
  /\ threw' = "none"
  /\ budget' = [budget EXCEPT !.adds = @ - 1]
  /\ UNCHANGED <<variant, driver, simulation, nodes, links, alpha, timer, applied, snodes,
                 slinks, uiVars>>

\* the ids graphStore.addLink is called with
LinkEnds == {CentralId, "node-1", "node-2"}

\* linkExists of lines 182-185: link.source.id and link.target.id against the two ids
LinkExists(ls, sourceId, targetId) ==
  \E k \in 1..Len(ls) :
    \/ SourceId(ls[k]) = sourceId /\ TargetId(ls[k]) = targetId
    \/ SourceId(ls[k]) = targetId /\ TargetId(ls[k]) = sourceId

\* graphStore.addLink(sourceId, targetId)
StoreAddLink(sourceId, targetId) ==
  /\ driver = "store"
  /\ budget.adds > 0
  /\ glinks' = IF ~LinkExists(glinks, sourceId, targetId) /\ sourceId # targetId
                THEN Append(glinks, StoreLink(sourceId, targetId))
                ELSE glinks
  /\ call' = [op |-> "addLink", arg |-> <<sourceId, targetId>>, value |-> FALSE]
  /\ last' = "addLink"
  /\ threw' = "none"
  /\ budget' = [budget EXCEPT !.adds = @ - 1]
  /\ UNCHANGED <<variant, driver, simulation, nodes, links, alpha, timer, applied, gnodes,
                 snodes, slinks, frames, running, selection, audioVars>>

StoreNext ==
  \/ Mount
  \/ UiAddNode
  \/ \E nodeId \in Ids(gnodes) : RemoveNode(nodeId)
  \/ \E sourceId, targetId \in LinkEnds : StoreAddLink(sourceId, targetId)

SpecStore == StoreInit /\ [][StoreNext]_vars

\* C8: after any sequence of additions by the component and removals from the store,
\* no two nodes of the graph share an id.
NodeIdsUnique == \A i, j \in 1..Len(gnodes) : i # j => gnodes[i] # gnodes[j]

\* C9: after removeNode(id) no link left in the graph has id as its source or as its
\* target, whether the link's ends are id strings or node objects.
RemoveNodePrunesLinks ==
  [][last' = "removeNode" =>
       \A k \in 1..Len(glinks') :
         /\ glinks'[k].source \notin Ids(gnodes) \ Ids(gnodes')
         /\ glinks'[k].target \notin Ids(gnodes) \ Ids(gnodes')]_vars

----------------------------------------------------------------------------
(* Properties of the velocities and of alpha *)

\* C11: once alpha has decayed to 0, every tick makes |vz| of every node with a
\* nonzero vz strictly smaller (stated for node arrays whose coordinates are finite).
VzDecaysWhenAlphaIsZero ==
  [][(last' \in {"tick", "step"} /\ threw' = "none" /\ AlphaNum(alpha').v = 0
        /\ AllFinite(nodes))
       => \A i \in 1..Len(nodes) :
            (IsFin(nodes[i].vz) /\ nodes[i].vz.v # 0)
              => Abs(nodes'[i].vz.v) < Abs(nodes[i].vz.v)]_vars

\* C12: alpha is 1 when the simulation is created, a tick replaces it by
\* alpha * (1 - alphaDecay) (to the last digit kept) and so never increases it, and
\* alpha stays within [0, 1] whatever ticks and additions are made.
AlphaDecaysWithinUnit ==
  [][/\ (last' = "create" /\ simulation' = "sim") => alpha' = SCALE * SCALE
     /\ last' \in {"tick", "step"} =>
          /\ alpha' <= alpha
          /\ Abs(alpha' * SCALE - alpha * (SCALE - AlphaDecay(variant))) < SCALE
     /\ 0 <= alpha' /\ alpha' <= SCALE * SCALE]_vars

\* a tick has run after an addition re-activated the simulation
AlphaDecayedAfterAdd ==
  /\ simulation = "sim"
  /\ last \in {"tick", "step"}
  /\ budget.adds < MaxAdds
  /\ 0 < alpha /\ alpha < ReactivationAlpha

----------------------------------------------------------------------------
(* The stabilization controller (design section 4.4).  The animation callback of *)
(* NodeGraph.svelte (lines 175-188) holds no such controller: it never calls     *)
(* tick(), counts no frames and has no running flag.  The controller is modelled  *)
(* from its description.                                                          *)

\* freezeAfterFrames, the configured frame threshold
FreezeAfterFrames == 3

\* frames a run may go on after the threshold
FramesBeyond == 2

FramesInit ==
  /\ variant \in {"ts", "js"}
  /\ driver = "frames"
  /\ \E g \in Graphs : nodes = g[1] /\ links = g[2]
  /\ simulation = "null"
  /\ alpha = 0
  /\ timer = FALSE
  /\ applied = <<>>
  /\ threw = "none"
  /\ last = "init"
  /\ budget = [ticks |-> FreezeAfterFrames + FramesBeyond, adds |-> MaxAdds]
  /\ StoreIdle
  /\ frames = 0
  /\ running = TRUE
  /\ SelIdle
  /\ ServiceIdle
  /\ EngineIdle
  /\ ViewIdle

\* the controller's per-frame step with the freeze left out
FrameNeverFreezing ==
  /\ simulation = "sim"
  /\ driver = "frames"
  /\ budget.ticks > 0
  /\ budget' = [budget EXCEPT !.ticks = @ - 1]
  /\ \E jig \in Jiggles :
       \E r \in {OverriddenTick(variant, nodes, links, alpha, jig)} :
          /\ nodes' = r.nodes
          /\ alpha' = r.alpha
          /\ applied' = r.applied
          /\ threw' = r.threw
  /\ frames' = frames + 1
  /\ running' = TRUE
  /\ last' = IF running THEN "frame" ELSE "idleFrame"
  /\ UNCHANGED <<variant, driver, simulation, links, timer, storeVars, selVars, audioVars>>

\* the controller's per-frame step: while running it calls tick() and counts the
\* frame, and at the threshold it clears running; once stopped it calls nothing
Frame ==
  /\ simulation = "sim"
  /\ driver = "frames"
  /\ budget.ticks > 0
  /\ budget' = [budget EXCEPT !.ticks = @ - 1]
  /\ IF running
     THEN /\ \E jig \in Jiggles :
               \E r \in {OverriddenTick(variant, nodes, links, alpha, jig)} :
                  /\ nodes' = r.nodes
                  /\ alpha' = r.alpha
                  /\ applied' = r.applied
                  /\ threw' = r.threw
          /\ frames' = frames + 1
          /\ running' = (frames + 1 < FreezeAfterFrames)
          /\ last' = "frame"
     ELSE /\ last' = "idleFrame"
          /\ UNCHANGED <<nodes, alpha, applied, threw, frames, running>>
  /\ UNCHANGED <<variant, driver, simulation, links, timer, storeVars, selVars, audioVars>>

FramesNext ==
  \/ Create
  \/ Frame
  \/ \E node \in NewNodes : AddNode(node)
  \/ \E link \in NewLinks : AddLink(link)

SpecFrames == FramesInit /\ [][FramesNext]_vars

----------------------------------------------------------------------------
(* The scenario of one leaf linked to the central node *)

\* the number of ticks after which the scenario looks at the leaf
ScenarioTicks == 200

\* the central node at the origin and one leaf at (5, 0, 0) linked to it
ScenarioGraph ==
  <<<<Central(0, 0, 0), Node("node-1", 5000, 0, 0, Undef)>>, <<Link(CentralId, "node-1")>>>>

\* the TypeScript file has the scenario's link distance 4, alphaDecay 0.15 and
\* velocityDecay 0.9; one tick more than the scenario's, to watch the leaf move
ScenarioInit == InitWith({ScenarioGraph}, {"ts"}, {"tick"}, ScenarioTicks + 1, 0)

ScenarioNext == Create \/ Tick

SpecScenario == ScenarioInit /\ [][ScenarioNext]_vars

\* the distance between two nodes
Distance(a, b) == Hypot3(Sub(a.x, b.x), Sub(a.y, b.y), Sub(a.z, b.z))

Origin == [x |-> Zero, y |-> Zero, z |-> Zero]

\* C15: after 200 ticks the leaf's distance from the origin is within 0.5 of 4, and a
\* further tick moves the leaf by less than 0.01.
LeafSettlesAtLinkDistance ==
  [][(budget.ticks = 1 /\ last' = "tick")
       => /\ Ge(Distance(nodes[2], Origin), Fin(4000 - 500))
          /\ Ge(Fin(4000 + 500), Distance(nodes[2], Origin))
          /\ Lt(Distance(nodes'[2], nodes[2]), Fin(10))]_vars

----------------------------------------------------------------------------
(* The selection store: selectionStore.js (variant "js") and selectionStore.ts   *)
(* (variant "ts").  The value held is NoSelection, a node id, or, once the        *)
(* JavaScript toggle has handed its callback to set, that function.               *)

MaxSelectOps == 6

\* the ids of the meshes a click can hit
Selectable == {CentralId, "node-1", "node-2", "node-3", "node-4"}

\* the arrow function that selectionStore.js line 37 passes to set
Callback == "function"

SelectionInit ==
  /\ variant \in {"ts", "js"}
  /\ driver = "select"
  /\ nodes = <<>>
  /\ links = <<>>
  /\ simulation = "null"
  /\ alpha = 0
  /\ timer = FALSE
  /\ applied = <<>>
  /\ threw = "none"
  /\ last = "init"
  /\ budget = [ticks |-> 0, adds |-> MaxSelectOps]
  /\ StoreIdle
  /\ UiIdle

\* what the store holds after toggle(nodeId): the TypeScript store runs the callback
\* through update; the JavaScript store gives the callback to set, which stores it
Toggled(v, current, nodeId) ==
  IF v = "ts"
  THEN [selection |-> IF current = nodeId THEN NoSelection ELSE nodeId,
        value |-> current # nodeId]
  ELSE [selection |-> Callback, value |-> FALSE]

\* selectionStore.toggle(nodeId)
Toggle(nodeId) ==
  /\ driver = "select"
  /\ budget.adds > 0
  /\ budget' = [budget EXCEPT !.adds = @ - 1]
  /\ selection' = Toggled(variant, selection, nodeId).selection
  /\ call' = [op |-> "toggle", arg |-> nodeId,
              value |-> Toggled(variant, selection, nodeId).value]
  /\ last' = "toggle"
  /\ UNCHANGED <<variant, driver, simulation, nodes, links, alpha, timer, applied, threw,
                 storeVars, frames, running, audioVars>>

\* selectionStore.select(nodeId)
Select(nodeId) ==
  /\ driver = "select"
  /\ budget.adds > 0
  /\ budget' = [budget EXCEPT !.adds = @ - 1]
  /\ selection' = nodeId
  /\ call' = [op |-> "select", arg |-> nodeId, value |-> FALSE]
  /\ last' = "select"
  /\ UNCHANGED <<variant, driver, simulation, nodes, links, alpha, timer, applied, threw,
                 storeVars, frames, running, audioVars>>

\* selectionStore.clear()
ClearSelection ==
  /\ driver = "select"
  /\ budget.adds > 0
  /\ budget' = [budget EXCEPT !.adds = @ - 1]
  /\ selection' = NoSelection
  /\ call' = [op |-> "clear", arg |-> NoSelection, value |-> FALSE]
  /\ last' = "clear"
  /\ UNCHANGED <<variant, driver, simulation, nodes, links, alpha, timer, applied, threw,
                 storeVars, frames, running, audioVars>>

SelectionNext ==
  \/ \E nodeId \in Selectable : Toggle(nodeId)
  \/ \E nodeId \in Selectable : Select(nodeId)
  \/ ClearSelection

SpecSelection == SelectionInit /\ [][SelectionNext]_vars

\* C16: toggle(nodeId) returns whether the node is selected afterwards, in both
\* variants of the store: a node that was not the selection becomes the selection and
\* true is returned, the selected node is deselected and false is returned, and the
\* store holds null or a node id.
ToggleReturnsWhetherSelected ==
  [][last' = "toggle" =>
       /\ selection' \in Selectable \cup {NoSelection}
       /\ IF selection = call'.arg
          THEN selection' = NoSelection /\ call'.value = FALSE
          ELSE selection' = call'.arg /\ call'.value = TRUE]_vars

----------------------------------------------------------------------------
(* The collision test *)

\* the square of the 3D distance of two nodes at finite positions, computed exactly
DistSq(a, b) ==
  (a.x.v - b.x.v) * (a.x.v - b.x.v) + (a.y.v - b.y.v) * (a.y.v - b.y.v)
    + (a.z.v - b.z.v) * (a.z.v - b.z.v)

\* the square of the distance of their projections on the x-y plane
PlanarDistSq(a, b) ==
  (a.x.v - b.x.v) * (a.x.v - b.x.v) + (a.y.v - b.y.v) * (a.y.v - b.y.v)

\* radius_(a) + radius_(b), in thousandths
RadiusSum(v, a, b) == CollideRadius(v, a).v + CollideRadius(v, b).v

\* every pair of distinct nodes is at least the sum of its radii apart in 3D
NoPairOverlaps(v, ns) ==
  \A i, j \in 1..Len(ns) :
    i # j => DistSq(ns[i], ns[j]) >= RadiusSum(v, ns[i], ns[j]) * RadiusSum(v, ns[i], ns[j])

\* C17: the collision force decides overlap by the true 3D distance: when every pair of
\* distinct nodes is at least the sum of its radii apart in 3D, an application of the
\* force displaces no node, however close the x-y projections are; so a node is
\* displaced only if some pair is strictly closer in 3D than the sum of its radii.
TrueDistanceDecides ==
  [][(last' = "collide" /\ AllFinite(nodes) /\ NoPairOverlaps(variant, nodes))
       => nodes' = nodes]_vars

\* the force was applied to a pair 0.5 apart in the plane and 3.04 apart in 3D, whose
\* radii sum to 3.0, and the pair stands where it was placed
ApartOnlyInDepth ==
  /\ last = "collide"
  /\ variant = "ts"
  /\ nodes = <<Central(0, 0, 0), Node("node-1", 500, 0, 3000, Fin(800))>>
  /\ PlanarDistSq(nodes[1], nodes[2])
       < RadiusSum(variant, nodes[1], nodes[2]) * RadiusSum(variant, nodes[1], nodes[2])
  /\ NoPairOverlaps(variant, nodes)

----------------------------------------------------------------------------
(* The pairs one application of the collision force corrects *)

RECURSIVE CorrectionsVisit(_, _, _, _, _, _)
\* the pairs <<i, o>> for which the callback reaches lines 106-120 along the visiting
\* order of node i: otherNode !== node and l < r at the moment of the visit
CorrectionsVisit(v, ns, i, order, al, strength) ==
  IF order = <<>> THEN <<>>
  ELSE (IF Head(order) # i /\ Overlaps(v, ns[i], ns[Head(order)])
        THEN << <<i, Head(order)>> >> ELSE <<>>)
       \o CorrectionsVisit(v, CollidePair(v, ns, i, Head(order), al, strength),
                           i, Tail(order), al, strength)

RECURSIVE CorrectionsFrom(_, _, _, _, _, _)
\* the pairs corrected by the loop of line 82 from node i on
CorrectionsFrom(v, P, ns, i, al, strength) ==
  IF i > Len(ns) THEN <<>>
  ELSE CorrectionsVisit(v, ns, i, Visited(v, P, ns, i), al, strength)
       \o CorrectionsFrom(v, P, CollideVisit(v, ns, i, Visited(v, P, ns, i), al, strength),
                          i + 1, al, strength)

\* the pairs corrected by one call of forceCollide3D's force(alpha), in order
Corrections(v, ns, al, strength) == CorrectionsFrom(v, ns, ns, 1, al, strength)

\* C18: within one application of the collision force no node is paired with itself,
\* and no unordered pair {A, B} is corrected a second time.
EachPairCorrectedOnce ==
  [][(last' = "collide" /\ AllFinite(nodes))
       => \A c \in {Corrections(variant, nodes, AlphaNum(alpha), Fin(CollideStrength))} :
            /\ \A k \in 1..Len(c) : c[k][1] # c[k][2]
            /\ \A k, m \in 1..Len(c) :
                 k < m => {c[k][1], c[k][2]} # {c[m][1], c[m][2]}]_vars

----------------------------------------------------------------------------
(* The z force called on the simulation's node array, as lines 186-190 call it,     *)
(* between calls of addNodeToSimulation                                           *)

AppendInit == InitWith(Graphs, {"ts", "js"}, {"append"}, MaxTicks, MaxAdds)

\* zForce(simulation.alpha())
ZApply ==
  /\ simulation = "sim"
  /\ driver = "append"
  /\ budget.ticks > 0
  /\ nodes' = ForceZ(nodes, AlphaNum(alpha), Fin(ZStrength), Zero)
  /\ applied' = <<"z">>
  /\ last' = "z"
  /\ budget' = [budget EXCEPT !.ticks = @ - 1]
  /\ UNCHANGED <<variant, driver, simulation, links, alpha, timer, threw, storeVars, uiVars>>

AppendNext ==
  \/ Create
  \/ ZApply
  \/ \E node \in NewNodes : AddNode(node)

SpecAppend == AppendInit /\ [][AppendNext]_vars

\* C19: the z force initializes vz to 0 for a node that lacks it, nodes appended by
\* addNodeToSimulation included: after an application of the z force every node of the
\* array has a vz that is a number (finite when its z was finite), and a node that had
\* no vz and stood at the target z = 0 has vz = 0.
ZForceInitializesVz ==
  [][last' = "z" =>
       \A i \in 1..Len(nodes) :
         /\ nodes'[i].vz.k # "undef"
         /\ IsFin(nodes[i].z) => IsFin(nodes'[i].vz)
         /\ (nodes[i].vz = Undef /\ nodes[i].z = Zero) => nodes'[i].vz = Zero]_vars

\* the z force has been applied after addNodeToSimulation appended node-2, which came
\* without vz at z = 0, to nodes that had been through the force before
AppendedNodeGotVz ==
  /\ last = "z"
  /\ budget.adds < MaxAdds
  /\ budget.ticks < MaxTicks - 1
  /\ \E i \in 1..Len(nodes) : nodes[i].id = "node-2" /\ nodes[i].vz = Zero /\ i = Len(nodes)

----------------------------------------------------------------------------
(* One pairwise correction *)

\* the displacement of a node from a to b on each axis, in thousandths
Displacement(a, b) == <<b.x.v - a.x.v, b.y.v - a.y.v, b.z.v - a.z.v>>

\* the separation vector node - otherNode of lines 97-99
Separation(a, b) == <<a.x.v - b.x.v, a.y.v - b.y.v, a.z.v - b.z.v>>

\* the vector m is parallel to d, each component of m being truncated to a thousandth:
\* every component of the cross product stays below what the truncation can make of it
AlongLine(m, d) ==
  \A p, q \in 1..3 : Abs(m[p] * d[q] - m[q] * d[p]) <= Abs(d[p]) + Abs(d[q])

\* the overlap r - l times alpha is at least 0.01: the correction (r - l) / l * alpha *
\* strength * d, which lines 106-111 compute in floating point and the model in
\* thousandths, is then at least one thousandth on some axis
Resolvable(v, a, b, al) ==
  (RadiusSum(v, a, b) - ISqrt(DistSq(a, b))) * al.v >= 10 * SCALE

\* from ns to r, nodes i and o were displaced along the line joining them, each away
\* from the other
MovedAlongLine(ns, r, i, o) ==
  /\ FinitePosition(r[i]) /\ FinitePosition(r[o])
  /\ DistSq(r[i], r[o]) >= DistSq(ns[i], ns[o])
  /\ AlongLine(Displacement(ns[i], r[i]), Separation(ns[i], ns[o]))
  /\ AlongLine(Displacement(ns[o], r[o]), Separation(ns[i], ns[o]))
  /\ \A p \in 1..3 :
       /\ Displacement(ns[i], r[i])[p] * Separation(ns[i], ns[o])[p] >= 0
       /\ Displacement(ns[o], r[o])[p] * Separation(ns[i], ns[o])[p] <= 0

\* C20: for two nodes with 0 < distance < radius_A + radius_B and alpha > 0 (the strength
\* is 0.7), one pairwise correction displaces each along the line that joined them, away
\* from the other, and leaves them strictly farther apart in 3D than they were (strictly
\* wherever the correction reaches a thousandth, never closer otherwise).
CorrectionMovesApart ==
  [][(last' = "collide" /\ AllFinite(nodes) /\ alpha > 0)
       => \A i, o \in 1..Len(nodes) :
            (/\ i # o
             /\ 0 < DistSq(nodes[i], nodes[o])
             /\ DistSq(nodes[i], nodes[o])
                  < RadiusSum(variant, nodes[i], nodes[o]) * RadiusSum(variant, nodes[i], nodes[o]))
              => \A r \in {CollidePair(variant, nodes, i, o, AlphaNum(alpha),
                                       Fin(CollideStrength))} :
                   /\ MovedAlongLine(nodes, r, i, o)
                   /\ Resolvable(variant, nodes[i], nodes[o], AlphaNum(alpha))
                        => DistSq(r[i], r[o]) > DistSq(nodes[i], nodes[o])]_vars

\* the central node and a node placed 0.5 from it on x, radii 1.8 and 0.8, after the one
\* correction an application at alpha 1 makes: they stand 3.44 apart on the x axis
PairPushedApart ==
  /\ last = "collide"
  /\ variant = "ts"
  /\ alpha = AlphaOne
  /\ Len(nodes) = 2
  /\ nodes[1].x = Fin(-1470) /\ nodes[2].x = Fin(1970)
  /\ nodes[1].y = Zero /\ nodes[2].y = Zero
  /\ nodes[1].z = Zero /\ nodes[2].z = Zero

----------------------------------------------------------------------------
(* The target distance of links *)

\* the link was created with the central node's id at one of its ends
TouchesCentral(l) == l.source = CentralId \/ l.target = CentralId

\* the link with its ends exchanged
Reversed(l) == [source |-> l.target, target |-> l.source, s |-> l.t, t |-> l.s]

\* C21: the target distance of a link depends on its role: a link with the central node
\* at either end gets 4 (TypeScript) or 6 (JavaScript), any other link 3 or 4, which is
\* strictly less, and exchanging source and target does not change the distance.
LinkDistanceByRole ==
  simulation = "sim" =>
    \A k \in 1..Len(links) :
      Resolved(links[k]) =>
        /\ TouchesCentral(links[k]) =>
             /\ LinkDistance(variant, nodes, links[k]) =
                  (IF variant = "ts" THEN Fin(4000) ELSE Fin(6000))
             /\ Gt(LinkDistance(variant, nodes, links[k]), LinkDistanceDefault(variant))
        /\ ~TouchesCentral(links[k]) =>
             /\ LinkDistance(variant, nodes, links[k]) =
                  (IF variant = "ts" THEN Fin(3000) ELSE Fin(4000))
             /\ Lt(LinkDistance(variant, nodes, links[k]), LinkDistanceCentral(variant))
        /\ LinkDistance(variant, nodes, Reversed(links[k]))
             = LinkDistance(variant, nodes, links[k])

\* a simulation that has ticked holds a link whose target is the central node
CentralAsTarget ==
  /\ simulation = "sim"
  /\ last = "tick"
  /\ \E k \in 1..Len(links) :
       Resolved(links[k]) /\ links[k].target = CentralId /\ links[k].source # CentralId

----------------------------------------------------------------------------
(* The simulation's arrays and the store's *)

\* the ends of the links of an array, as pairs of ids
Ends(ls) == {<<ls[k].source, ls[k].target>> : k \in 1..Len(ls)}

\* C22: a node added through the component's addNode() becomes a member of the
\* simulation's node array and its link a member of the simulation's link array, so
\* that the simulation's nodes and links stay those of the graph store.
AddedNodeReachesSimulation ==
  [][(last' = "uiAddNode" /\ simulation = "sim")
       => /\ gnodes'[Len(gnodes')] \in Ids(snodes')
          /\ <<CentralId, gnodes'[Len(gnodes')]>> \in Ends(slinks')
          /\ (Ids(snodes) = Ids(gnodes) /\ Ends(slinks) = Ends(glinks))
               => (Ids(snodes') = Ids(gnodes') /\ Ends(slinks') = Ends(glinks'))]_vars

\* the links of the array that join a and b, in either direction
Joining(ls, a, b) ==
  {k \in 1..Len(ls) : \/ ls[k].source = a /\ ls[k].target = b
                      \/ ls[k].source = b /\ ls[k].target = a}

\* C23: graphStore.addLink(sourceId, targetId) never creates a link from a node to
\* itself nor a second link between two nodes already linked in either direction: the
\* graph is left as it was when the pair is linked, and every pair of nodes has at most
\* one link afterwards if it had at most one before.
AddLinkKeepsLinksUnique ==
  [][last' = "addLink" =>
       /\ \A k \in 1..Len(glinks') : glinks'[k].source # glinks'[k].target
       /\ Joining(glinks, call'.arg[1], call'.arg[2]) # {} => glinks' = glinks
       /\ (\A a, b \in LinkEnds : Cardinality(Joining(glinks, a, b)) <= 1)
            => (\A a, b \in LinkEnds : Cardinality(Joining(glinks', a, b)) <= 1)]_vars

----------------------------------------------------------------------------
(* AudioService (audioService.ts).  An audio element is a record of the file it  *)
(* was created for and its state: "pending" once play() has been called and its  *)
(* promise is unsettled, "playing" once it has started, "paused" after pause(),  *)
(* "failed" when play() rejected.  A playAudio call runs up to its await in one  *)
(* step and resumes in a second step when the promise settles.  The variable     *)
(* call holds the last call made to the service from outside.                    *)

MaxAudioOps == 4

AudioFiles == {"a.mp3", "b.mp3"}

ServiceInit ==
  /\ variant = "ts"
  /\ driver = "service"
  /\ nodes = <<>>
  /\ links = <<>>
  /\ simulation = "null"
  /\ alpha = 0
  /\ timer = FALSE
  /\ applied = <<>>
  /\ threw = "none"
  /\ last = "init"
  /\ budget = [ticks |-> 0, adds |-> MaxAudioOps]
  /\ StoreIdle
  /\ UiIdle

\* stopAudio() (lines 86-101) applied to the service record s; pause() on an element
\* whose play() is still pending leaves that promise to reject
StopAudio(s) ==
  [s EXCEPT !.elements = IF s.audioElement # NoElement /\ s.isPlaying
                         THEN [s.elements EXCEPT ![s.audioElement].state = "paused"]
                         ELSE s.elements,
            !.isPlaying = IF s.audioElement # NoElement /\ s.isPlaying THEN FALSE
                          ELSE s.isPlaying,
            !.source = NoElement,
            !.audioElement = NoElement,
            !.currentAudioFile = "null"]

\* lines 62-75: a new element for the file becomes this.audioElement and this.source,
\* play() is called on it and the call awaits the promise
StartElement(s, audioFile) ==
  [s EXCEPT !.audioContext = TRUE,
            !.elements = Append(s.elements, [file |-> audioFile, state |-> "pending"]),
            !.audioElement = Len(s.elements) + 1,
            !.source = Len(s.elements) + 1,
            !.awaiting = s.awaiting \cup {Len(s.elements) + 1}]

\* playAudio(audioFile) up to the await of line 75
PlayAudio(audioFile) ==
  /\ driver = "service"
  /\ budget.adds > 0
  /\ service' = StartElement(IF service.isPlaying THEN StopAudio(service) ELSE service,
                             audioFile)
  /\ call' = [op |-> "playAudio", arg |-> audioFile, value |-> FALSE]
  /\ last' = "playAudio"
  /\ threw' = "none"
  /\ budget' = [budget EXCEPT !.adds = @ - 1]
  /\ UNCHANGED <<variant, driver, simulation, nodes, links, alpha, timer, applied,
                 storeVars, frames, running, selection, engine, view>>

\* the promise of element e's play() is fulfilled: lines 76-77 run
PlayFulfilled(e) ==
  /\ driver = "service"
  /\ e \in service.awaiting
  /\ service.elements[e].state = "pending"
  /\ service' = [service EXCEPT !.elements[e].state = "playing",
                                !.isPlaying = TRUE,
                                !.currentAudioFile = service.elements[e].file,
                                !.awaiting = @ \ {e}]
  /\ last' = "playFulfilled"
  /\ threw' = "none"
  /\ UNCHANGED <<variant, driver, simulation, nodes, links, alpha, timer, applied, budget,
                 storeVars, frames, running, selVars, engine, view>>

\* the promise of element e's play() is rejected: the catch of lines 78-80 logs it
PlayRejected(e) ==
  /\ driver = "service"
  /\ e \in service.awaiting
  /\ service' = [service EXCEPT !.elements[e].state =
                                   IF @ = "pending" THEN "failed" ELSE @,
                                !.awaiting = @ \ {e}]
  /\ last' = "playRejected"
  /\ threw' = "none"
  /\ UNCHANGED <<variant, driver, simulation, nodes, links, alpha, timer, applied, budget,
                 storeVars, frames, running, selVars, engine, view>>

\* stopAudio() called from outside
Stop ==
  /\ driver = "service"
  /\ budget.adds > 0
  /\ service' = StopAudio(service)
  /\ call' = [op |-> "stopAudio", arg |-> "null", value |-> FALSE]
  /\ last' = "stopAudio"
  /\ threw' = "none"
  /\ budget' = [budget EXCEPT !.adds = @ - 1]
  /\ UNCHANGED <<variant, driver, simulation, nodes, links, alpha, timer, applied,
                 storeVars, frames, running, selection, engine, view>>

ServiceNext ==
  \/ \E audioFile \in AudioFiles : PlayAudio(audioFile)
  \/ \E e \in service.awaiting : PlayFulfilled(e)
  \/ \E e \in service.awaiting : PlayRejected(e)
  \/ Stop

SpecService == ServiceInit /\ [][ServiceNext]_vars

\* isAudioPlaying()
IsAudioPlaying(s) == s.isPlaying

\* getCurrentAudioFile()
GetCurrentAudioFile(s) == s.currentAudioFile

\* getFrequencyData(): null unless the analyser exists and isPlaying is set
GetFrequencyData(s) == IF ~s.audioContext \/ ~s.isPlaying THEN "null" ELSE "dataArray"

\* the elements that have started and have not been paused
Sounding(s) == {e \in 1..Len(s.elements) : s.elements[e].state = "playing"}

\* C24: the AudioService plays at most one audio element at a time, however playAudio
\* calls interleave: never more than one element has started and not been paused, and
\* an element that has started is this.audioElement or has been paused.
OneElementAtATime ==
  /\ Cardinality(Sounding(service)) <= 1
  /\ \A e \in Sounding(service) : e = service.audioElement

\* C25: once stopAudio() has returned, and until playAudio is called again,
\* isAudioPlaying() is false, getCurrentAudioFile() is null and getFrequencyData() is
\* null, also when a play() awaited by an earlier playAudio settles meanwhile; and
\* isPlaying is never set while audioElement is null.
StoppedStaysStopped ==
  /\ call.op = "stopAudio" =>
       /\ ~IsAudioPlaying(service)
       /\ GetCurrentAudioFile(service) = "null"
       /\ GetFrequencyData(service) = "null"
  /\ service.isPlaying => service.audioElement # NoElement

\* C26: when audioElement.play() rejects, playAudio does not throw, isPlaying is false,
\* currentAudioFile is not the file that failed, and getFrequencyData() returns null.
RejectedPlayLeavesIdle ==
  [][last' = "playRejected" =>
       /\ threw' = "none"
       /\ ~IsAudioPlaying(service')
       /\ \A e \in service.awaiting \ service'.awaiting :
            GetCurrentAudioFile(service') # service.elements[e].file
       /\ GetFrequencyData(service') = "null"]_vars

----------------------------------------------------------------------------
(* AudioEngine (audioEngine.ts, lines 4-394).  A sample source is a record of the *)
(* node it was started for, whether it loops, and its state: "playing" after      *)
(* start(), "stopped" after stop(), "ended" when a source that does not loop has  *)
(* played its buffer through.                                                     *)

MaxEngineOps == 4

SoundTypes == {"sine"}

\* sampleKey of line 293
SampleKey(nodeId, soundType) == IF nodeId = CentralId THEN "central" ELSE soundType

SampleKeys == {SampleKey(n, s) : n \in EngineNodes, s \in SoundTypes}

EngineInit ==
  /\ variant = "ts"
  /\ driver = "engine"
  /\ nodes = <<>>
  /\ links = <<>>
  /\ simulation = "null"
  /\ alpha = 0
  /\ timer = FALSE
  /\ applied = <<>>
  /\ threw = "none"
  /\ last = "init"
  /\ budget = [ticks |-> 0, adds |-> MaxEngineOps]
  /\ StoreIdle
  /\ UiIdle

\* stopSampleSound(nodeId) on the engine record g
StopSampleSound(g, nodeId) ==
  IF g.audioSources[nodeId] = NoElement THEN g
  ELSE [g EXCEPT !.sources[g.audioSources[nodeId]].state =
                    IF @ = "playing" THEN "stopped" ELSE @,
                 !.audioSources[nodeId] = NoElement]

\* lines 305-323 with the stopSampleSound of line 302 left out
StartSourceOver(g, nodeId, loop) ==
  [g EXCEPT !.sources = Append(@, [node |-> nodeId, loop |-> loop, state |-> "playing"]),
            !.audioSources[nodeId] = Len(g.sources) + 1]

\* lines 301-323: the node's source is stopped, a new one started and stored
StartSource(g, nodeId, loop) == StartSourceOver(StopSampleSound(g, nodeId), nodeId, loop)

\* whether playSampleSound(nodeId, soundType, loop) finds a buffer: its return value
HasBuffer(g, nodeId, soundType) == SampleKey(nodeId, soundType) \in g.audioBuffers

\* playSampleSound(nodeId, soundType, loop) on the engine record g
PlaySampleSound(g, nodeId, soundType, loop) ==
  IF HasBuffer(g, nodeId, soundType) THEN StartSource(g, nodeId, loop) ELSE g

\* lines 231-259: the oscillator is created if the node has none, and its gain ramped
Oscillate(g, nodeId, loop) ==
  [g EXCEPT !.gain[nodeId] = IF loop THEN "on" ELSE "pulse"]

\* playNode(nodeId, duration, soundType, loop) on the engine record g
PlayNodeSound(g, nodeId, soundType, loop) ==
  IF HasBuffer(g, nodeId, soundType)
  THEN PlaySampleSound([g EXCEPT !.loopingSounds[nodeId] = loop], nodeId, soundType, loop)
  ELSE Oscillate([g EXCEPT !.loopingSounds[nodeId] = loop], nodeId, loop)

\* stopNodeSound(nodeId) on the engine record g
StopNodeSound(g, nodeId) ==
  [StopSampleSound(g, nodeId) EXCEPT
     !.loopingSounds[nodeId] = FALSE,
     !.gain[nodeId] = IF @ = "none" THEN "none" ELSE "silent"]

\* an operation of the engine called from outside, leaving the record g
EngineCall(op, nodeId, value, g) ==
  /\ driver \in {"engine", "view"}
  /\ budget.adds > 0
  /\ engine' = g
  /\ call' = [op |-> op, arg |-> nodeId, value |-> value]
  /\ last' = op
  /\ threw' = "none"
  /\ budget' = [budget EXCEPT !.adds = @ - 1]
  /\ view' = [view EXCEPT !.calls = <<>>]
  /\ UNCHANGED <<variant, driver, simulation, nodes, links, alpha, timer, applied,
                 storeVars, frames, running, selection, service>>

\* loadSample(id, url) completes: line 162
LoadSample(id) ==
  /\ id \notin engine.audioBuffers
  /\ EngineCall("loadSample", id, FALSE, [engine EXCEPT !.audioBuffers = @ \cup {id}])

PlayNode(nodeId, soundType, loop) ==
  /\ nodeId \in EngineNodes
  /\ EngineCall("playNode", nodeId, FALSE, PlayNodeSound(engine, nodeId, soundType, loop))

PlaySample(nodeId, soundType, loop) ==
  /\ nodeId \in EngineNodes
  /\ EngineCall("playSampleSound", nodeId, HasBuffer(engine, nodeId, soundType),
                PlaySampleSound(engine, nodeId, soundType, loop))

StopNode(nodeId) ==
  /\ nodeId \in EngineNodes
  /\ EngineCall("stopNodeSound", nodeId, FALSE, StopNodeSound(engine, nodeId))

\* time passes: a source that does not loop reaches the end of its buffer, or the ramp
\* down scheduled by a playNode that does not loop brings the oscillator's gain to 0
SoundEnds ==
  /\ driver = "engine"
  /\ \/ \E i \in 1..Len(engine.sources) :
          /\ engine.sources[i].state = "playing" /\ ~engine.sources[i].loop
          /\ engine' = [engine EXCEPT !.sources[i].state = "ended"]
     \/ \E n \in EngineNodes :
          /\ engine.gain[n] = "pulse"
          /\ engine' = [engine EXCEPT !.gain[n] = "silent"]
  /\ last' = "soundEnds"
  /\ threw' = "none"
  /\ UNCHANGED <<variant, driver, simulation, nodes, links, alpha, timer, applied, budget,
                 storeVars, frames, running, selVars, service, view>>

EngineNext ==
  \/ \E id \in SampleKeys : LoadSample(id)
  \/ \E nodeId \in EngineNodes, soundType \in SoundTypes, loop \in BOOLEAN :
       PlayNode(nodeId, soundType, loop)
  \/ \E nodeId \in EngineNodes, soundType \in SoundTypes, loop \in BOOLEAN :
       PlaySample(nodeId, soundType, loop)
  \/ \E nodeId \in EngineNodes : StopNode(nodeId)
  \/ SoundEnds

SpecEngine == EngineInit /\ [][EngineNext]_vars

\* the sources that have been started and neither stopped nor played through
LiveSources(g) == {i \in 1..Len(g.sources) : g.sources[i].state = "playing"}

\* C27: the engine keeps at most one live sample source per node: every source that has
\* been started and not stopped is the one stored under its node id in audioSources;
\* and a playSampleSound that finds no buffer returns false and starts nothing.
OneLiveSourcePerNode ==
  [][/\ \A i \in LiveSources(engine') : engine'.audioSources[engine'.sources[i].node] = i
     /\ \A i, j \in LiveSources(engine') :
          engine'.sources[i].node = engine'.sources[j].node => i = j
     /\ (last' = "playSampleSound" /\ ~call'.value) => engine' = engine]_vars

\* a playSampleSound for node-1 has replaced a looping source that was still playing
SourceReplaced ==
  /\ last = "playSampleSound"
  /\ call.value
  /\ \E i \in 1..Len(engine.sources) :
       /\ engine.sources[i].node = call.arg
       /\ engine.sources[i].loop
       /\ engine.sources[i].state = "stopped"
  /\ engine.audioSources[call.arg] = Len(engine.sources)

\* C28: for each node at most one sound generator is audible at a time, however the
\* loading of samples interleaves with playNode: no node has both a looping oscillator
\* with a gain above 0 and a playing sample source, a playNode that plays the sample
\* having silenced the oscillator an earlier playNode fell back to.
OneGeneratorPerNode ==
  \A i \in LiveSources(engine) : engine.gain[engine.sources[i].node] # "on"

----------------------------------------------------------------------------
(* The node component (third script of NodeGraph.svelte, lines 510-852): one per    *)
(* node, subscribed to the TypeScript selection store and to the audio store.       *)
(* A step is a whole callback, with the updateNodeAppearance calls it makes;        *)
(* view.calls lists the calls those made to the engine, in order.                   *)

MaxViewOps == 4

MaxViewFrames == 1

\* the order in which the components subscribed
ViewOrder == <<CentralId, "node-1">>

ViewInit ==
  /\ variant = "ts"
  /\ driver = "view"
  /\ nodes = <<>>
  /\ links = <<>>
  /\ simulation = "null"
  /\ alpha = 0
  /\ timer = FALSE
  /\ applied = <<>>
  /\ threw = "none"
  /\ last = "init"
  /\ budget = [ticks |-> MaxViewFrames, adds |-> MaxViewOps]
  /\ StoreIdle
  /\ UiIdle

\* updateNodeAppearance() of node n with the deselected branch calling nothing on the
\* engine
UpdateNodeAppearanceKeepingSound(w, n) ==
  IF ~w.view.of[n].mesh THEN w
  ELSE IF w.view.of[n].isSelected
  THEN [view |-> [w.view EXCEPT !.of[n].animationId = TRUE,
                                !.calls = IF w.view.of[n].audioEngine
                                          THEN Append(@, <<"playNode", n>>) ELSE @],
        engine |-> IF w.view.of[n].audioEngine
                   THEN PlayNodeSound(w.engine, n, "sine", TRUE) ELSE w.engine]
  ELSE [view |-> [w.view EXCEPT !.of[n].animationId = FALSE], engine |-> w.engine]

\* updateNodeAppearance() of node n (lines 780-831) on the components and the engine
UpdateNodeAppearance(w, n) ==
  IF ~w.view.of[n].mesh THEN w
  ELSE IF w.view.of[n].isSelected
  THEN [view |-> [w.view EXCEPT !.of[n].animationId = TRUE,
                                !.calls = IF w.view.of[n].audioEngine
                                          THEN Append(@, <<"playNode", n>>) ELSE @],
        engine |-> IF w.view.of[n].audioEngine
                   THEN PlayNodeSound(w.engine, n, "sine", TRUE) ELSE w.engine]
  ELSE [view |-> [w.view EXCEPT !.of[n].animationId = FALSE,
                                !.calls = IF w.view.of[n].audioEngine
                                          THEN Append(@, <<"stopNodeSound", n>>) ELSE @],
        engine |-> IF w.view.of[n].audioEngine
                   THEN StopNodeSound(w.engine, n) ELSE w.engine]

RECURSIVE OnSelection(_, _, _)
\* the selectionStore.subscribe callback of lines 526-532, run by each component from
\* the k-th on for the selected id sel
OnSelection(w, sel, k) ==
  IF k > Len(ViewOrder) THEN w
  ELSE OnSelection(
         UpdateNodeAppearance(
           [w EXCEPT !.view.of[ViewOrder[k]].isSelected = (sel = ViewOrder[k])],
           ViewOrder[k]),
         sel, k + 1)

\* a step of the components, for arg, that leaves them and the engine as in w
ViewStep(op, arg, w) ==
  /\ driver = "view"
  /\ view' = w.view
  /\ engine' = w.engine
  /\ call' = [op |-> op, arg |-> arg, value |-> FALSE]
  /\ last' = op
  /\ threw' = "none"
  /\ UNCHANGED <<variant, driver, simulation, nodes, links, alpha, timer, applied,
                 storeVars, frames, running, service>>

\* the selection store is set to sel (a node id, or NoSelection): every component's
\* callback runs
SelectionChanges(sel) ==
  /\ budget.adds > 0
  /\ budget' = [budget EXCEPT !.adds = @ - 1]
  /\ selection' = sel
  /\ ViewStep("selection", sel,
              OnSelection([view |-> [view EXCEPT !.calls = <<>>], engine |-> engine], sel, 1))

\* onMount of node n's component (lines 539-541): createNodeMesh, then the reactive
\* statement of lines 847-851 runs updateNodeAppearance
ViewMount(n) ==
  /\ ~view.of[n].mesh
  /\ UNCHANGED <<budget, selection>>
  /\ ViewStep("viewMount", n,
              UpdateNodeAppearance(
                [view |-> [view EXCEPT !.of[n].mesh = TRUE, !.calls = <<>>,
                                       !.of[n].animationId = view.of[n].isSelected],
                 engine |-> engine], n))

\* audioStore.set(audioEngine): the callback of lines 535-537 runs in every component
EngineReady ==
  /\ \E n \in EngineNodes : ~view.of[n].audioEngine
  /\ UNCHANGED <<budget, selection>>
  /\ ViewStep("engineReady", NoSelection,
              [view |-> [view EXCEPT !.of = [n \in EngineNodes |->
                                               [@[n] EXCEPT !.audioEngine = TRUE]],
                                     !.calls = <<>>],
               engine |-> engine])

\* the node object of component n changes: the reactive statement of lines 847-851
NodeChanges(n) ==
  /\ view.of[n].mesh
  /\ budget.adds > 0
  /\ budget' = [budget EXCEPT !.adds = @ - 1]
  /\ UNCHANGED selection
  /\ ViewStep("nodeChanges", n,
              UpdateNodeAppearance([view |-> [view EXCEPT !.calls = <<>>],
                                    engine |-> engine], n))

\* the animation frame component n requested arrives (lines 666-674): it requests the
\* next one, and cancels it if the node is not selected
Animate(n) ==
  /\ view.of[n].animationId
  /\ budget.ticks > 0
  /\ budget' = [budget EXCEPT !.ticks = @ - 1]
  /\ UNCHANGED selection
  /\ ViewStep("animate", n,
              [view |-> [view EXCEPT !.of[n].animationId = view.of[n].isSelected,
                                     !.calls = <<>>],
               engine |-> engine])

ViewNext ==
  \/ \E sel \in EngineNodes \cup {NoSelection} : SelectionChanges(sel)
  \/ \E n \in EngineNodes : ViewMount(n)
  \/ EngineReady
  \/ \E n \in EngineNodes : NodeChanges(n)
  \/ \E n \in EngineNodes : Animate(n)
  \/ \E id \in SampleKeys : LoadSample(id)

SpecView == ViewInit /\ [][ViewNext]_vars

\* the calls the components made to the engine in the last step include c
Called(c) == \E i \in 1..Len(view.calls) : view.calls[i] = c

\* node n's appearance was updated in the step taken, in the deselected state
UpdatedDeselected(n) ==
  /\ view'.of[n].mesh
  /\ ~view'.of[n].isSelected
  /\ \/ last' = "selection"
     \/ last' \in {"nodeChanges", "viewMount"} /\ call'.arg = n

----------------------------------------------------------------------------
(* Frame of forceZ *)

\* node b is node a in every field but z and vz
SameButDepth(a, b) == [b EXCEPT !.z = a.z, !.vz = a.vz] = a

\* C30: one application of forceZ changes only the z and vz fields of nodes: the array
\* keeps its length and its order, and every node keeps its id, x, y, size and every
\* other field; the strength and the target the force applies stay those it was
\* created with.
ForceZChangesOnlyDepth ==
  [][last' = "z" =>
       /\ Len(nodes') = Len(nodes)
       /\ \A i \in 1..Len(nodes) :
            /\ nodes'[i].id = nodes[i].id
            /\ nodes'[i].x = nodes[i].x
            /\ nodes'[i].y = nodes[i].y
            /\ nodes'[i].size = nodes[i].size
            /\ SameButDepth(nodes[i], nodes'[i])
       /\ nodes' = ForceZ(nodes, AlphaNum(alpha'), Fin(ZStrength), Zero)]_vars

\* forceZ has pulled a node lying off the plane z = 0 towards it, and the node keeps a
\* finite position away from the origin in x or y
PulledTowardsPlane ==
  /\ last = "z"
  /\ \E i \in 1..Len(nodes) :
       /\ nodes[i].vz.k = "fin"
       /\ nodes[i].vz.v # 0
       /\ nodes[i].z.k = "fin"
       /\ nodes[i].x.k = "fin"
       /\ nodes[i].x.v # 0

====
